---- MODULE Spec2Model ----
(***************************************************************************)
(* The batch pipeline of src/pipeline.py: main() reads the three source    *)
(* files, bootstraps the schema in one transaction, then loads the staging *)
(* tables and runs the four transform rules in a second transaction.       *)
(* Tables are bags of rows (SQL relations keep duplicates); the database   *)
(* is a record of tables; a transaction works on `db` and a commit copies  *)
(* it to `committed`, a rollback copies `committed` back.                  *)
(***************************************************************************)
EXTENDS Integers, Sequences, FiniteSets, Bags, TLC

\* Bound: how many operational records exist in the source systems; a source
\* file holds some of them, one line each.
MaxRecords == 3

(***************************************************************************)
(* Values.  NULL is SQL NULL / a missing CSV field; dates are (month, day) *)
(* pairs and NullDate a missing date; SQL booleans are "true", "false" or  *)
(* NULL (three-valued logic).                                              *)
(***************************************************************************)
NULL == "NULL"

Date(m, d) == [month |-> m, day |-> d]

NullDate == Date(0, 0)

\* event_timestamp: a calendar date and a time of day.
Timestamp(dt, t) == [date |-> dt, time |-> t]

\* e.event_timestamp::date                                  (pipeline.py:76)
CastDate(ts) == ts.date

\* DATE_TRUNC('month', x)                                   (pipeline.py:105)
DateTruncMonth(dt) == IF dt = NullDate THEN NullDate ELSE Date(dt.month, 1)

\* SQL "=" on dates: NULL when either side is NULL.
DateEq3(a, b) ==
    IF a = NullDate \/ b = NullDate THEN NULL
    ELSE IF a = b THEN "true" ELSE "false"

\* SQL "=" on text.
TextEq3(a, b) ==
    IF a = NULL \/ b = NULL THEN NULL
    ELSE IF a = b THEN "true" ELSE "false"

\* SQL OR in three-valued logic.
Or3(a, b) ==
    IF a = "true" \/ b = "true" THEN "true"
    ELSE IF a = NULL \/ b = NULL THEN NULL
    ELSE "false"

\* x IS NOT NULL, for a date.
DateIsNotNull(dt) == IF dt = NullDate THEN "false" ELSE "true"

(***************************************************************************)
(* The reference date dimension, which the pipeline reads and never        *)
(* writes: one row per calendar date it covers.                            *)
(***************************************************************************)
DateKey(dt) == dt.month * 100 + dt.day

dim_date ==
    { [date_key |-> DateKey(dt), full_date |-> dt] :
        dt \in {Date(1, 1), Date(1, 2), Date(2, 1)} }

(***************************************************************************)
(* The operational records the source files are exported from.  dim_date   *)
(* lacks the date (2, 2).                                                  *)
(***************************************************************************)
Customer(id, name, country, address, signup, sub) ==
    [customer_id |-> id, company_name |-> name, country |-> country,
     address |-> address, signup_date |-> signup, subscription_id |-> sub]

Subscription(sub, plan, period, amount, currency, status, start, end) ==
    [subscription_id |-> sub, plan_name |-> plan, period |-> period,
     amount |-> amount, currency |-> currency, status |-> status,
     start_date |-> start, end_date |-> end]

AppEvent(ts, cust, type, feature, device) ==
    [event_timestamp |-> ts, customer_id |-> cust, event_type |-> type,
     feature_name |-> feature, metadata |-> [device |-> device]]

CustomerRecords ==
    { Customer(1, "Acme", "ES", "Calle 1", Date(1, 1), 1),
      Customer(1, "Acme SL", "FR", "Rue 2", Date(1, 2), 2),
      Customer(2, "Beta", "PT", "Rua 3", Date(2, 1), 1) }

SubscriptionRecords ==
    { Subscription(1, "Pro", "monthly", 10, "USD", "active", Date(1, 1), NullDate),
      Subscription(1, "Pro", "monthly", 20, "USD", "cancelled", Date(1, 2), NullDate),
      Subscription(1, "Pro", "monthly", 20, "EUR", "active", Date(1, 2), Date(2, 1)),
      Subscription(1, "Pro", "yearly", 120, "USD", NULL, Date(2, 1), NullDate),
      Subscription(2, "Pro", "yearly", 100, "EUR", "active", Date(2, 2), NullDate) }

AppEventRecords ==
    { AppEvent(Timestamp(Date(1, 1), 9), 1, "click", "dashboard", "mobile"),
      AppEvent(Timestamp(Date(2, 2), 17), 2, "view", "billing", "desktop") }

SOURCE_FILES == <<"app_events", "customers", "subscriptions">>

Sources == {SOURCE_FILES[i] : i \in 1..Len(SOURCE_FILES)}

WorldSize(w) ==
    Cardinality(w.app_events) + Cardinality(w.customers) + Cardinality(w.subscriptions)

\* The worlds of exactly MaxRecords records.
Worlds ==
    { w \in [app_events : SUBSET AppEventRecords,
             customers : SUBSET CustomerRecords,
             subscriptions : SUBSET SubscriptionRecords] :
        WorldSize(w) = MaxRecords }

(***************************************************************************)
(* Bags.                                                                   *)
(***************************************************************************)
\* T is a set of [row, n, tag] records, distinct by tag: the bag holding
\* each row as many times as the n of its records add up to.
RECURSIVE SumN(_)
SumN(T) ==
    IF T = {} THEN 0
    ELSE LET t == CHOOSE u \in T : TRUE
         IN  t.n + SumN(T \ {t})

BagFrom(T) ==
    [o \in {t.row : t \in T} |-> SumN({t \in T : t.row = o})]

(***************************************************************************)
(* extract_data_from_files: each source file becomes a DataFrame; the      *)
(* nested metadata of an event is serialised to a JSON string.             *)
(***************************************************************************)
\* json.dumps of a metadata object: the text as its list of (key, value).
JsonDumps(m) == << <<"device", m.device>> >>

\* text ->> key: the value stored under key, NULL when there is none.
JsonGetText(js, key) ==
    IF \E i \in 1..Len(js) : js[i][1] = key
    THEN js[CHOOSE i \in 1..Len(js) : js[i][1] = key][2]
    ELSE NULL

ReadJsonRow(r) == [r EXCEPT !.metadata = JsonDumps(r.metadata)]

\* One pass of the loop: the DataFrame of one source file.
ReadSource(source, file) ==
    IF source = "app_events" THEN BagOfAll(ReadJsonRow, file) ELSE file

extract_data_from_files(files) ==
    [s \in Sources |-> ReadSource(s, files[s])]

\* The contents the three files can have, given the records that exist.
FileContents(w) ==
    [app_events : {SetToBag(f) : f \in SUBSET w.app_events},
     customers : {SetToBag(f) : f \in SUBSET w.customers},
     subscriptions : {SetToBag(f) : f \in SUBSET w.subscriptions}]

(***************************************************************************)
(* The database.                                                           *)
(***************************************************************************)
StagingTable(source) ==
    CASE source = "app_events" -> "app_events_raw"
      [] source = "customers" -> "customers_raw"
      [] source = "subscriptions" -> "subscriptions_raw"

EmptyDatabase ==
    [schema |-> FALSE,
     app_events_raw |-> EmptyBag, customers_raw |-> EmptyBag,
     subscriptions_raw |-> EmptyBag,
     dim_customer |-> {}, dim_plan |-> {},
     fact_app_usage |-> EmptyBag, fact_subscription_events |-> EmptyBag]

\* The data of a database: its tables without the structural state.
Tables(d) == [d EXCEPT !.schema = TRUE]

\* Leaving a `with conn.begin()` block by an exception / normally.
\* A faulty variant: the failed transaction's writes stay visible.
Rollback_keeps(d, c) == d

Rollback(d, c) == c

\* A faulty variant: the block is left without a COMMIT taking effect.
CommitTxn_lost(d, c) == c

CommitTxn(d, c) == d

\* create_schema: the DDL creates what is absent and touches no row.
create_schema(d) == [d EXCEPT !.schema = TRUE]

(***************************************************************************)
(* load_data_to_staging_with_sql: TRUNCATE then append, source by source.  *)
(***************************************************************************)
\* A faulty variant: the table is not cleared before the batch is appended.
Truncate_nothing(table) == table

Truncate(table) == EmptyBag

ToSqlAppend(table, df) == table (+) df

LoadSource(d, source, df) ==
    LET t == StagingTable(source)
    IN  [d EXCEPT ![t] = ToSqlAppend(Truncate(d[t]), df)]

\* The database after the first k passes of the loop over the DataFrames.
RECURSIVE LoadFirst(_, _, _)
LoadFirst(d, data, k) ==
    IF k = 0 THEN d
    ELSE LoadSource(LoadFirst(d, data, k - 1), SOURCE_FILES[k], data[SOURCE_FILES[k]])

load_data_to_staging_with_sql(d, data) == LoadFirst(d, data, Len(SOURCE_FILES))

(***************************************************************************)
(* TRANSFORM_SQL["dim_customer"]: upsert by customer_id.                   *)
(***************************************************************************)
DimCustomerRow(r) ==
    [customer_id |-> r.customer_id, company_name |-> r.company_name,
     country |-> r.country, address |-> r.address, signup_date |-> r.signup_date]

\* ON CONFLICT DO UPDATE refuses to touch one key twice in a statement.
CustomerKeyTwice(stg) ==
    \E r \in BagToSet(stg) :
        \/ CopiesIn(r, stg) > 1
        \/ \E q \in BagToSet(stg) : q # r /\ q.customer_id = r.customer_id

\* A faulty variant: the SET list leaves the address out.
UpdateCustomer_keeps_address(old, excluded) ==
    [old EXCEPT !.company_name = excluded.company_name,
                !.country = excluded.country,
                !.signup_date = excluded.signup_date]

\* ON CONFLICT (customer_id) DO UPDATE SET ... = EXCLUDED. ...
UpdateCustomer(old, excluded) ==
    [old EXCEPT !.company_name = excluded.company_name,
                !.country = excluded.country,
                !.address = excluded.address,
                !.signup_date = excluded.signup_date]

\* A faulty variant: an UPDATE of the known keys, inserting none.
Upsert_dim_customer_update_only(dim, stg) ==
    LET incoming == {DimCustomerRow(r) : r \in BagToSet(stg)}
        Hit(x) == {e \in incoming : e.customer_id = x.customer_id}
    IN  { IF Hit(x) = {} THEN x ELSE UpdateCustomer(x, CHOOSE e \in Hit(x) : TRUE) :
            x \in dim }

Upsert_dim_customer(dim, stg) ==
    LET incoming == {DimCustomerRow(r) : r \in BagToSet(stg)}
        Hit(x) == {e \in incoming : e.customer_id = x.customer_id}
    IN  { IF Hit(x) = {} THEN x ELSE UpdateCustomer(x, CHOOSE e \in Hit(x) : TRUE) :
            x \in dim }
        \cup { e \in incoming : \A x \in dim : x.customer_id # e.customer_id }

Transform_dim_customer(d) ==
    [d EXCEPT !.dim_customer = Upsert_dim_customer(d.dim_customer, d.customers_raw)]

(***************************************************************************)
(* TRANSFORM_SQL["dim_plan"]: the first-ranked row of every (plan_name,    *)
(* period) group, upserted by (plan_name, period).                         *)
(***************************************************************************)
PlanGroup(r) == <<r.plan_name, r.period>>

PlanGroups(stg) == {PlanGroup(r) : r \in BagToSet(stg)}

\* A faulty variant: ORDER BY amount (ascending).
RankedFirstRows_lowest(stg, g) ==
    { r \in BagToSet(stg) :
        /\ PlanGroup(r) = g
        /\ \A q \in BagToSet(stg) : PlanGroup(q) = g => q.amount >= r.amount }

\* ORDER BY amount DESC: a row no row of its group precedes.
RankedFirstRows(stg, g) ==
    { r \in BagToSet(stg) :
        /\ PlanGroup(r) = g
        /\ \A q \in BagToSet(stg) : PlanGroup(q) = g => q.amount <= r.amount }

\* WHERE rn = 1: one row per group; among rows of equal amount ROW_NUMBER
\* numbers them in an order SQL leaves open, so every choice is an outcome.
RankedSubscriptions(stg) ==
    { pick \in [PlanGroups(stg) -> BagToSet(stg)] :
        \A g \in PlanGroups(stg) : pick[g] \in RankedFirstRows(stg, g) }

PlanExists(dim, g) == \E x \in dim : <<x.plan_name, x.period>> = g

\* The ways the new groups can draw their plan_key from the key sequence.
PlanKeyDraws(dim, stg) ==
    LET new == {g \in PlanGroups(stg) : ~PlanExists(dim, g)}
        n == Cardinality(dim)
    IN  { k \in [new -> (n + 1)..(n + Cardinality(new))] :
            \A g, h \in new : g # h => k[g] # k[h] }

\* ON CONFLICT (plan_name, period) DO UPDATE SET base_amount, currency.
UpdatePlan(old, excluded) ==
    [old EXCEPT !.base_amount = excluded.amount, !.currency = excluded.currency]

\* A faulty variant: the table is rebuilt from the batch, as the facts are.
Upsert_dim_plan_rebuilt(dim, stg, pick, keys) ==
    { UpdatePlan(x, pick[<<x.plan_name, x.period>>]) :
        x \in {y \in dim : <<y.plan_name, y.period>> \in DOMAIN pick} }
    \cup { [plan_key |-> keys[g], plan_name |-> pick[g].plan_name,
            period |-> pick[g].period, base_amount |-> pick[g].amount,
            currency |-> pick[g].currency] : g \in DOMAIN keys }

Upsert_dim_plan(dim, stg, pick, keys) ==
    { IF <<x.plan_name, x.period>> \in DOMAIN pick
      THEN UpdatePlan(x, pick[<<x.plan_name, x.period>>])
      ELSE x : x \in dim }
    \cup { [plan_key |-> keys[g], plan_name |-> pick[g].plan_name,
            period |-> pick[g].period, base_amount |-> pick[g].amount,
            currency |-> pick[g].currency] : g \in DOMAIN keys }

Transform_dim_plan(d, pick, keys) ==
    [d EXCEPT !.dim_plan = Upsert_dim_plan(d.dim_plan, d.subscriptions_raw, pick, keys)]

(***************************************************************************)
(* TRANSFORM_SQL["fact_app_usage"]: DELETE, then one row per staging event *)
(* joined to dim_date on the event's calendar date.                        *)
(***************************************************************************)
\* A faulty variant: the DELETE is missing.
DeleteFrom_nothing(table) == table

DeleteFrom(table) == EmptyBag

AppUsageRow(e, dd) ==
    [event_timestamp |-> e.event_timestamp, date_key |-> dd.date_key,
     customer_id |-> e.customer_id, event_type |-> e.event_type,
     feature_name |-> e.feature_name,
     device_type |-> JsonGetText(e.metadata, "device")]

AppUsageJoin(stg) ==
    { [row |-> AppUsageRow(p[1], p[2]), n |-> CopiesIn(p[1], stg), tag |-> p] :
        p \in { q \in BagToSet(stg) \X dim_date :
                  DateEq3(CastDate(q[1].event_timestamp), q[2].full_date) = "true" } }

Insert_fact_app_usage(table, stg) == table (+) BagFrom(AppUsageJoin(stg))

Transform_fact_app_usage(d) ==
    [d EXCEPT !.fact_app_usage =
        Insert_fact_app_usage(DeleteFrom(d.fact_app_usage), d.app_events_raw)]

(***************************************************************************)
(* TRANSFORM_SQL["fact_subscription_events"]: DELETE, then one row per     *)
(* match of subscriptions_raw, customers_raw, dim_plan and dim_date.       *)
(***************************************************************************)
RECURSIVE Gcd(_, _)
Gcd(a, b) == IF b = 0 THEN a ELSE Gcd(b, a % b)

\* An exact quotient, in lowest terms.
Ratio(n, d) == [num |-> n \div Gcd(n, d), den |-> d \div Gcd(n, d)]

\* A faulty variant: a yearly amount is stored as it is.
MrrAmount_raw(s) == Ratio(s.amount, 1)

\* CASE WHEN s.period = 'yearly' THEN s.amount / 12.0 ELSE s.amount END
MrrAmount(s) ==
    IF TextEq3(s.period, "yearly") = "true" THEN Ratio(s.amount, 12)
    ELSE Ratio(s.amount, 1)

\* (sd.status = 'cancelled' OR sd.end_date IS NOT NULL)
ChurnFlag(s) == Or3(TextEq3(s.status, "cancelled"), DateIsNotNull(s.end_date))

\* A faulty variant: only the start date is truncated to its month.
IsNewMrrFlag_untruncated(s, dd) ==
    DateEq3(DateTruncMonth(s.start_date), dd.full_date)

\* (DATE_TRUNC('month', sd.start_date) = DATE_TRUNC('month', d.full_date))
IsNewMrrFlag(s, dd) ==
    DateEq3(DateTruncMonth(s.start_date), DateTruncMonth(dd.full_date))

\* subscription_details: s JOIN c ON subscription_id JOIN p ON plan_name, period.
SubscriptionDetails(subs, custs, plans) ==
    { t \in BagToSet(subs) \X BagToSet(custs) \X plans :
        /\ t[1].subscription_id = t[2].subscription_id
        /\ TextEq3(t[1].plan_name, t[3].plan_name) = "true"
        /\ TextEq3(t[1].period, t[3].period) = "true" }

SubscriptionEventRow(s, c, p, dd) ==
    [date_key |-> dd.date_key, customer_id |-> c.customer_id,
     plan_key |-> p.plan_key, subscription_id |-> s.subscription_id,
     mrr_amount |-> MrrAmount(s), churn_flag |-> ChurnFlag(s),
     is_new_mrr_flag |-> IsNewMrrFlag(s, dd), status |-> s.status]

\* A faulty variant: ... JOIN dim_date d ON sd.end_date = d.full_date
SubscriptionEventJoin_end_date(subs, custs, plans) ==
    { [row |-> SubscriptionEventRow(q[1][1], q[1][2], q[1][3], q[2]),
       n |-> CopiesIn(q[1][1], subs) * CopiesIn(q[1][2], custs),
       tag |-> q] :
        q \in { u \in SubscriptionDetails(subs, custs, plans) \X dim_date :
                  DateEq3(u[1][1].end_date, u[2].full_date) = "true" } }

\* ... FROM subscription_details sd JOIN dim_date d ON sd.start_date = d.full_date
SubscriptionEventJoin(subs, custs, plans) ==
    { [row |-> SubscriptionEventRow(q[1][1], q[1][2], q[1][3], q[2]),
       n |-> CopiesIn(q[1][1], subs) * CopiesIn(q[1][2], custs),
       tag |-> q] :
        q \in { u \in SubscriptionDetails(subs, custs, plans) \X dim_date :
                  DateEq3(u[1][1].start_date, u[2].full_date) = "true" } }

Insert_fact_subscription_events(table, subs, custs, plans) ==
    table (+) BagFrom(SubscriptionEventJoin(subs, custs, plans))

Transform_fact_subscription_events(d) ==
    [d EXCEPT !.fact_subscription_events =
        Insert_fact_subscription_events(DeleteFrom(d.fact_subscription_events),
            d.subscriptions_raw, d.customers_raw, d.dim_plan)]

(***************************************************************************)
(* main(): the run.                                                        *)
(*   pc         where main is: "idle" before the first run, then           *)
(*              "extract", "bootstrap", "load", the four rule names,       *)
(*              "commit", and "done" or "failed" once main has returned    *)
(*   records    the operational records the files are exported from        *)
(*   all_data   the DataFrames extract_data_from_files returned            *)
(*   db         the tables as the connection sees them                     *)
(*   committed  the tables as last committed                               *)
(* and, recorded for the properties only:                                  *)
(*   pre        `committed` when the run started                           *)
(*   input      the DataFrames the run extracted, until it fails           *)
(*   last_input the DataFrames of the last earlier run that committed      *)
(*   phases     the steps the run has started, in order                    *)
(*   failed_in  the step whose exception ended the run, or "none"          *)
(*   undone     whether the failed step's transaction had changed a table   *)
(*   outcome    how the invocation of main ended: "returned" when main     *)
(*              returned, "raised" when an exception left it, "running"    *)
(*              until then, "none" before the first invocation             *)
(***************************************************************************)
VARIABLES pc, records, all_data, db, committed, pre, input, last_input, phases,
          failed_in, undone, outcome

vars ==
    <<pc, records, all_data, db, committed, pre, input, last_input, phases,
      failed_in, undone, outcome>>

transform_order ==
    <<"dim_customer", "dim_plan", "fact_app_usage", "fact_subscription_events">>

Rules == {transform_order[i] : i \in 1..Len(transform_order)}

\* A faulty variant: the loop passes over every second rule.
AfterRule_skips(i) ==
    IF i + 1 < Len(transform_order) THEN transform_order[i + 2] ELSE "commit"

\* The step after rule number i of transform_order.
AfterRule(i) == IF i < Len(transform_order) THEN transform_order[i + 1] ELSE "commit"

NoData == <<>>

Init ==
    /\ pc = "idle"
    /\ records \in Worlds
    /\ all_data = NoData
    /\ db = EmptyDatabase
    /\ committed = EmptyDatabase
    /\ pre = EmptyDatabase
    /\ input = NoData
    /\ last_input = NoData
    /\ phases = <<>>
    /\ failed_in = "none"
    /\ undone = FALSE
    /\ outcome = "none"

\* A new invocation of main.
Main ==
    /\ pc \in {"idle", "done", "failed"}
    /\ pc' = "extract"
    /\ pre' = committed
    /\ input' = NoData
    /\ phases' = <<>>
    /\ failed_in' = "none"
    /\ undone' = FALSE
    /\ outcome' = "running"
    /\ last_input' = IF pc = "done" THEN input ELSE last_input
    /\ UNCHANGED <<records, all_data, db, committed>>

\* A faulty variant: the except clause logs and raises the exception again.
Except_reraises(step, written) ==
    /\ pc' = "failed"
    /\ failed_in' = step
    /\ all_data' = NoData
    /\ input' = NoData
    /\ phases' = Append(phases, step)
    /\ undone' = (written # committed)
    /\ outcome' = "raised"

\* The except clause of main: log the error, and fall off the end of main.
\* `written` is the database as the failed step's transaction, if it had
\* one, left it.
Except(step, written) ==
    /\ pc' = "failed"
    /\ failed_in' = step
    /\ all_data' = NoData
    /\ input' = NoData
    /\ phases' = Append(phases, step)
    /\ undone' = (written # committed)
    /\ outcome' = "returned"

\* all_data = extract_data_from_files()
Extract ==
    /\ pc = "extract"
    /\ \E files \in FileContents(records) :
          all_data' = extract_data_from_files(files)
    /\ input' = all_data'
    /\ pc' = "bootstrap"
    /\ phases' = Append(phases, "extract")
    /\ UNCHANGED <<records, db, committed, pre, last_input, failed_in, undone, outcome>>

\* A faulty variant: the file that cannot be read is skipped, and the run
\* goes on with the DataFrames of the other files.
ExtractRaises_skips_file ==
    /\ pc = "extract"
    /\ \E files \in FileContents(records), bad \in Sources :
          all_data' = [extract_data_from_files(files) EXCEPT ![bad] = EmptyBag]
    /\ input' = all_data'
    /\ failed_in' = "extract"
    /\ pc' = "bootstrap"
    /\ phases' = Append(phases, "extract")
    /\ UNCHANGED <<records, db, committed, pre, last_input, undone, outcome>>

\* A file is unreadable or malformed: the DataFrames read so far are dropped.
ExtractRaises ==
    /\ pc = "extract"
    /\ Except("extract", db)
    /\ UNCHANGED <<records, db, committed, pre, last_input>>

\* with conn.begin(): create_schema(conn)
Bootstrap ==
    /\ pc = "bootstrap"
    /\ db' = create_schema(db)
    /\ committed' = CommitTxn(db', committed)
    /\ pc' = "load"
    /\ phases' = Append(phases, "bootstrap")
    /\ UNCHANGED <<records, all_data, pre, input, last_input, failed_in, undone, outcome>>

BootstrapRaises ==
    /\ pc = "bootstrap"
    /\ db' = Rollback(db, committed)
    /\ Except("bootstrap", db)
    /\ UNCHANGED <<records, committed, pre, last_input>>

\* with conn.begin(): load_data_to_staging_with_sql(conn, all_data)
Load ==
    /\ pc = "load"
    /\ db' = load_data_to_staging_with_sql(db, all_data)
    /\ pc' = transform_order[1]
    /\ phases' = Append(phases, "load")
    /\ UNCHANGED <<records, all_data, committed, pre, input, last_input, failed_in, undone, outcome>>

\* The load raises in pass k + 1, before or after that pass's TRUNCATE.
LoadRaises ==
    /\ pc = "load"
    /\ \E k \in 0..(Len(SOURCE_FILES) - 1), truncated \in BOOLEAN :
          LET t == StagingTable(SOURCE_FILES[k + 1])
              sofar == LoadFirst(db, all_data, k)
              partial == IF truncated
                         THEN [sofar EXCEPT ![t] = Truncate(sofar[t])]
                         ELSE sofar
          IN  /\ db' = Rollback(partial, committed)
              /\ Except("load", partial)
    /\ UNCHANGED <<records, committed, pre, last_input>>

RunDimCustomer ==
    /\ pc = transform_order[1]
    /\ ~CustomerKeyTwice(db.customers_raw)
    /\ db' = Transform_dim_customer(db)
    /\ pc' = AfterRule(1)
    /\ phases' = Append(phases, pc)
    /\ UNCHANGED <<records, all_data, committed, pre, input, last_input, failed_in, undone, outcome>>

RunDimPlan ==
    /\ pc = transform_order[2]
    /\ \E pick \in RankedSubscriptions(db.subscriptions_raw),
          keys \in PlanKeyDraws(db.dim_plan, db.subscriptions_raw) :
          db' = Transform_dim_plan(db, pick, keys)
    /\ pc' = AfterRule(2)
    /\ phases' = Append(phases, pc)
    /\ UNCHANGED <<records, all_data, committed, pre, input, last_input, failed_in, undone, outcome>>

RunFactAppUsage ==
    /\ pc = transform_order[3]
    /\ db' = Transform_fact_app_usage(db)
    /\ pc' = AfterRule(3)
    /\ phases' = Append(phases, pc)
    /\ UNCHANGED <<records, all_data, committed, pre, input, last_input, failed_in, undone, outcome>>

RunFactSubscriptionEvents ==
    /\ pc = transform_order[4]
    /\ db' = Transform_fact_subscription_events(db)
    /\ pc' = AfterRule(4)
    /\ phases' = Append(phases, pc)
    /\ UNCHANGED <<records, all_data, committed, pre, input, last_input, failed_in, undone, outcome>>

\* A faulty variant: the rule whose statement raised is started again.
TransformRaises_retries ==
    /\ pc \in Rules
    /\ phases' = Append(phases, pc)
    /\ UNCHANGED <<pc, records, all_data, db, committed, pre, input, last_input,
                   failed_in, undone, outcome>>

\* conn.execute(query) raises: the rule's own error (a customer_id twice in
\* one upsert) or the database's; the transaction is rolled back.
TransformRaises ==
    /\ pc \in Rules
    /\ db' = Rollback(db, committed)
    /\ Except(pc, db)
    /\ UNCHANGED <<records, committed, pre, last_input>>

\* Leaving the second `with conn.begin()` block: COMMIT.
Commit ==
    /\ pc = "commit"
    /\ committed' = CommitTxn(db, committed)
    /\ all_data' = NoData
    /\ pc' = "done"
    /\ outcome' = "returned"
    /\ phases' = Append(phases, "commit")
    /\ UNCHANGED <<records, db, pre, input, last_input, failed_in, undone>>

CommitRaises ==
    /\ pc = "commit"
    /\ db' = Rollback(db, committed)
    /\ Except("commit", db)
    /\ UNCHANGED <<records, committed, pre, last_input>>

Next ==
    \/ Main
    \/ Extract
    \/ ExtractRaises
    \/ Bootstrap
    \/ BootstrapRaises
    \/ Load
    \/ LoadRaises
    \/ RunDimCustomer
    \/ RunDimPlan
    \/ RunFactAppUsage
    \/ RunFactSubscriptionEvents
    \/ TransformRaises
    \/ Commit
    \/ CommitRaises

Spec == Init /\ [][Next]_vars

(***************************************************************************)
(* Properties.                                                             *)
(***************************************************************************)
LoadTransformSteps == {"load"} \cup Rules

\* How many rows of bag B (duplicates counted) are among the rows S.
RECURSIVE CopiesOfAll(_, _)
CopiesOfAll(B, S) ==
    IF S = {} THEN 0
    ELSE LET x == CHOOSE y \in S : TRUE
         IN  CopiesIn(x, B) + CopiesOfAll(B, S \ {x})

DateResolves(dt) == \E dd \in dim_date : dd.full_date = dt

\* C1: when the staging load or one of the four transform rules fails, every
\* staging and analytics table holds, after the run, exactly the contents it
\* had before the run started.
C1_FailedLoadTransformRestoresTables ==
    (pc = "failed" /\ failed_in \in LoadTransformSteps) =>
        /\ Tables(committed) = Tables(pre)
        /\ Tables(db) = Tables(pre)

\* C1 witness: a run over a warehouse that an earlier run filled changed
\* tables in its transaction and failed in its last rule.
C1_Witness ==
    /\ pc = "failed"
    /\ failed_in = "fact_subscription_events"
    /\ undone
    /\ pre.customers_raw # EmptyBag
    /\ pre.fact_subscription_events # EmptyBag

\* C2: a second successful run on the same input as the run before it leaves
\* every staging and analytics table as the first run left it.
C2_SecondRunChangesNothing ==
    (pc = "done" /\ input = last_input) => Tables(committed) = Tables(pre)

\* C3: the steps of a run come in the order bootstrap, extract, load: no
\* file is read before the bootstrap has committed, and nothing is loaded
\* before the extraction has finished.
C3_BootstrapBeforeExtract ==
    \A i \in 1..Len(phases) :
        /\ phases[i] = "extract" => \E j \in 1..(i - 1) : phases[j] = "bootstrap"
        /\ phases[i] = "load" => \E j \in 1..(i - 1) : phases[j] = "extract"

\* C4: bootstrap and load-and-transform are two transactions: a failure of
\* the load, of a rule or of the second commit leaves the bootstrap's schema
\* committed, and a failed bootstrap changes no committed table and is
\* followed by no load or transform step in that run.
C4_SeparateTransactions ==
    /\ (pc = "failed" /\ failed_in \in LoadTransformSteps \cup {"commit"}) =>
          committed.schema
    /\ (pc = "failed" /\ failed_in = "bootstrap") =>
          /\ committed = pre
          /\ \A i \in 1..Len(phases) : phases[i] \notin LoadTransformSteps \cup {"commit"}

\* C4 witness: the first bootstrap of an empty database committed, and the
\* load that followed it failed.
C4_Witness ==
    /\ pc = "failed"
    /\ failed_in = "load"
    /\ ~pre.schema
    /\ committed.schema

\* C5: after a successful run dim_customer holds, for every customer_id of
\* the run's customer batch, exactly one row, whose company_name, country,
\* address and signup_date are those of the batch.
C5_CustomerOverwrittenByBatch ==
    pc = "done" =>
        \A r \in BagToSet(input.customers) :
            /\ Cardinality({x \in committed.dim_customer :
                              x.customer_id = r.customer_id}) = 1
            /\ \A x \in committed.dim_customer :
                  x.customer_id = r.customer_id =>
                      /\ x.company_name = r.company_name
                      /\ x.country = r.country
                      /\ x.address = r.address
                      /\ x.signup_date = r.signup_date

\* C5 witness: the run met a customer_id that an earlier run had stored with
\* another address.
C5_Witness ==
    /\ pc = "done"
    /\ \E r \in BagToSet(input.customers) : \E x \in pre.dim_customer :
          /\ x.customer_id = r.customer_id
          /\ x.address # r.address

C7_SameInputSameCurrency ==
    (pc = "done" /\ input = last_input) =>
        \A x \in pre.dim_plan : \A y \in committed.dim_plan :
            (x.plan_name = y.plan_name /\ x.period = y.period) =>
                x.currency = y.currency

\* C8: after a successful run fact_app_usage holds one row for every staging
\* event whose calendar date is in dim_date, and no other row.
C8_AppUsageIsExactlyTheResolvedEvents ==
    pc = "done" =>
        LET stg == committed.app_events_raw
            fact == committed.fact_app_usage
            kept == {e \in BagToSet(stg) : DateResolves(e.event_timestamp.date)}
            From(o, e) ==
                /\ o.event_timestamp = e.event_timestamp
                /\ o.customer_id = e.customer_id
                /\ o.event_type = e.event_type
                /\ o.feature_name = e.feature_name
                /\ \E dd \in dim_date :
                      /\ dd.full_date = e.event_timestamp.date
                      /\ dd.date_key = o.date_key
        IN  /\ BagCardinality(fact) = CopiesOfAll(stg, kept)
            /\ \A e \in kept : \E o \in BagToSet(fact) :
                  From(o, e) /\ CopiesIn(o, fact) >= CopiesIn(e, stg)
            /\ \A o \in BagToSet(fact) : \E e \in kept : From(o, e)

\* C8 witness: a successful run over a warehouse whose fact_app_usage an
\* earlier run had filled staged an event whose date dim_date lacks.
C8_Witness ==
    /\ pc = "done"
    /\ pre.fact_app_usage # EmptyBag
    /\ pre.app_events_raw # committed.app_events_raw
    /\ \E e \in BagToSet(committed.app_events_raw) :
          ~DateResolves(e.event_timestamp.date)

\* C9: after a successful run fact_subscription_events holds exactly one row
\* for every staging subscription whose customer, plan and start date
\* resolve, and none for the others.
C9_OneRowPerResolvedSubscription ==
    pc = "done" =>
        LET subs == committed.subscriptions_raw
            resolved ==
                { s \in BagToSet(subs) :
                    /\ \E c \in BagToSet(committed.customers_raw) :
                          c.subscription_id = s.subscription_id
                    /\ \E p \in committed.dim_plan :
                          p.plan_name = s.plan_name /\ p.period = s.period
                    /\ DateResolves(s.start_date) }
        IN  BagCardinality(committed.fact_subscription_events)
                = CopiesOfAll(subs, resolved)

\* C10: whatever runs have succeeded or failed, every committed fact row
\* resolves its joins: the date_key of a fact_app_usage row is in dim_date,
\* and the date_key, plan_key and customer_id of a fact_subscription_events
\* row are in dim_date, dim_plan and dim_customer.
C10_FactRowsResolve ==
    /\ \A o \in BagToSet(committed.fact_app_usage) :
          \E dd \in dim_date : dd.date_key = o.date_key
    /\ \A o \in BagToSet(committed.fact_subscription_events) :
          /\ \E dd \in dim_date : dd.date_key = o.date_key
          /\ \E p \in committed.dim_plan : p.plan_key = o.plan_key
          /\ \E c \in committed.dim_customer : c.customer_id = o.customer_id

\* C10 witness: both fact tables hold rows, and the run after the one that
\* wrote them has failed.
C10_Witness ==
    /\ pc = "failed"
    /\ failed_in \in LoadTransformSteps
    /\ committed.fact_app_usage # EmptyBag
    /\ committed.fact_subscription_events # EmptyBag

\* C11: between runs each staging table holds exactly the rows of the batch
\* of the most recent run that committed its load, and no row of an earlier
\* batch; before any run has committed, the staging tables are empty.
C11_StagingIsLastCommittedBatch ==
    pc \in {"idle", "done", "failed"} =>
        LET batch == IF pc = "done" THEN input ELSE last_input
        IN  \A source \in Sources :
                LET rows == IF batch = NoData THEN EmptyBag ELSE batch[source]
                IN  /\ committed[StagingTable(source)] = rows
                    /\ db[StagingTable(source)] = rows

\* C11 witness: a run committed a batch that lacks a row the staging table
\* held from the committed run before it.
C11_Witness ==
    /\ pc = "done"
    /\ last_input # NoData
    /\ \E source \in Sources :
          /\ input[source] # EmptyBag
          /\ \E r \in BagToSet(pre[StagingTable(source)]) :
                ~BagIn(r, input[source])

\* The fact_subscription_events row o was computed from the staging
\* subscription s: it carries its subscription_id and status and the key of
\* its plan among the plans.
FromSubscription(o, s, plans) ==
    /\ o.subscription_id = s.subscription_id
    /\ o.status = s.status
    /\ \E p \in plans :
          /\ p.plan_key = o.plan_key
          /\ p.plan_name = s.plan_name
          /\ p.period = s.period

\* The subscription's start date is the full_date of the row's date_key.
StartsOn(o, s) ==
    \E dd \in dim_date : dd.date_key = o.date_key /\ dd.full_date = s.start_date

\* C12: every fact_subscription_events row has mrr_amount equal to the
\* amount of its staging subscription divided by 12 when the period is
\* "yearly", and equal to the amount when it is not.
C12_MrrIsAmountOrTwelfth ==
    \A o \in BagToSet(committed.fact_subscription_events) :
        \E s \in BagToSet(committed.subscriptions_raw) :
            /\ FromSubscription(o, s, committed.dim_plan)
            /\ StartsOn(o, s)
            /\ o.mrr_amount.den > 0
            /\ IF s.period = "yearly"
               THEN o.mrr_amount.num * 12 = s.amount * o.mrr_amount.den
               ELSE o.mrr_amount.num = s.amount * o.mrr_amount.den

\* C12 witness: the fact table holds the row of a yearly subscription of
\* amount 120, with mrr_amount 10, and the row of a monthly one of amount 10,
\* with mrr_amount 10.
C12_Witness ==
    LET fact == BagToSet(committed.fact_subscription_events)
        subs == BagToSet(committed.subscriptions_raw)
    IN  /\ \E o \in fact : \E s \in subs :
              /\ FromSubscription(o, s, committed.dim_plan) /\ StartsOn(o, s)
              /\ s.period = "yearly" /\ s.amount = 120
              /\ o.mrr_amount = [num |-> 10, den |-> 1]
        /\ \E o \in fact : \E s \in subs :
              /\ FromSubscription(o, s, committed.dim_plan) /\ StartsOn(o, s)
              /\ s.period = "monthly" /\ s.amount = 10
              /\ o.mrr_amount = [num |-> 10, den |-> 1]

\* C13: every fact_subscription_events row has churn_flag true when the
\* status of its staging subscription is "cancelled" or its end date is
\* present, and churn_flag false in every other case, a missing status with
\* no end date included.
C13_ChurnFlagIsTrueOrFalse ==
    \A o \in BagToSet(committed.fact_subscription_events) :
        \E s \in BagToSet(committed.subscriptions_raw) :
            /\ FromSubscription(o, s, committed.dim_plan)
            /\ StartsOn(o, s)
            /\ o.churn_flag = IF s.status = "cancelled" \/ s.end_date # NullDate
                              THEN "true"
                              ELSE "false"

\* C14: every fact_subscription_events row has is_new_mrr_flag true when
\* the start date of its staging subscription is in the calendar month of the
\* dim_date entry the row carries the key of, and false when it is not.
C14_NewMrrFlagIsSameMonth ==
    \A o \in BagToSet(committed.fact_subscription_events) :
        \E s \in BagToSet(committed.subscriptions_raw) : \E dd \in dim_date :
            /\ FromSubscription(o, s, committed.dim_plan)
            /\ dd.date_key = o.date_key
            /\ o.is_new_mrr_flag = IF s.start_date.month = dd.full_date.month
                                   THEN "true"
                                   ELSE "false"

\* C14 witness: a row is matched to a dim_date entry that is not the first
\* day of its month, where the month and the date differ.
C14_Witness ==
    \E o \in BagToSet(committed.fact_subscription_events) :
        \E s \in BagToSet(committed.subscriptions_raw) : \E dd \in dim_date :
            /\ FromSubscription(o, s, committed.dim_plan)
            /\ dd.date_key = o.date_key
            /\ dd.full_date # DateTruncMonth(dd.full_date)
            /\ s.start_date.month = dd.full_date.month
            /\ o.is_new_mrr_flag = "true"

\* C20: in every reachable state every fact_subscription_events row, as
\* committed and as the running transaction sees it, has is_new_mrr_flag
\* true: the row's dim_date entry is the one whose full_date is the start
\* date, so the two months are the same.
C20_NewMrrFlagAlwaysTrue ==
    /\ \A o \in BagToSet(committed.fact_subscription_events) :
          o.is_new_mrr_flag = "true"
    /\ \A o \in BagToSet(db.fact_subscription_events) :
          o.is_new_mrr_flag = "true"

\* C20 witness: the fact table holds the row of a subscription that ended
\* in another month than it started in, and rows of two different months.
C20_Witness ==
    LET fact == BagToSet(committed.fact_subscription_events)
    IN  /\ \E o \in fact : \E s \in BagToSet(committed.subscriptions_raw) :
              /\ FromSubscription(o, s, committed.dim_plan) /\ StartsOn(o, s)
              /\ s.end_date # NullDate
              /\ s.end_date.month # s.start_date.month
        /\ \E o, q \in fact : \E dd, ee \in dim_date :
              /\ dd.date_key = o.date_key /\ ee.date_key = q.date_key
              /\ dd.full_date.month # ee.full_date.month

\* C15: when the extraction of a source file fails the run is over: no
\* staging or analytics table, committed or as the connection sees it, is
\* changed by the run, no step follows the extraction, and the DataFrames
\* read before the failure are gone, so they are never loaded.
C15_FailedExtractionChangesNothing ==
    failed_in = "extract" =>
        /\ pc = "failed"
        /\ committed = pre
        /\ db = pre
        /\ all_data = NoData
        /\ phases = <<"extract">>

\* C15 witness: the extraction failed in a run over a warehouse whose
\* staging and analytics tables an earlier run had filled.
C15_Witness ==
    /\ pc = "failed"
    /\ failed_in = "extract"
    /\ pre.customers_raw # EmptyBag
    /\ pre.subscriptions_raw # EmptyBag
    /\ pre.dim_plan # {}
    /\ pre.fact_subscription_events # EmptyBag

\* C16: every step of a run is taken at most once and a failure ends the
\* run: once a step has failed the run stands at "failed" with that step as
\* its last, no step having been taken twice; and an invocation starts with
\* no DataFrame, no recorded step and no failure from the invocation before
\* it, only the committed tables.
C16_OneShotStepsFailedIsTerminal ==
    /\ \A i, j \in 1..Len(phases) : phases[i] = phases[j] => i = j
    /\ failed_in # "none" =>
          /\ pc = "failed"
          /\ outcome # "running"
          /\ phases # <<>>
          /\ phases[Len(phases)] = failed_in
    /\ pc = "failed" => failed_in # "none"
    /\ pc = "extract" =>
          /\ all_data = NoData
          /\ phases = <<>>
          /\ failed_in = "none"
          /\ db = committed
          /\ committed = pre

\* C16 witness: a run that followed a committed one failed in its sixth
\* step, each of its steps taken once.
C16_Witness ==
    /\ pc = "failed"
    /\ failed_in = "fact_app_usage"
    /\ Len(phases) = Len(transform_order) + 2
    /\ pre.dim_customer # {}

IsRuleName(step) ==
    step \in {"dim_customer", "dim_plan", "fact_app_usage", "fact_subscription_events"}

\* C17: the rules of a run are started in the order dim_customer, dim_plan,
\* fact_app_usage, fact_subscription_events; when a rule fails it is the
\* last one started; and a run that succeeds has started all four, its
\* fact_subscription_events holding a row, under the plan_key dim_plan has
\* after the run, for every staged subscription whose customer and start
\* date resolve, the plans the same run created included.
C17_RulesInOrderFactsSeeDimensions ==
    LET order == <<"dim_customer", "dim_plan", "fact_app_usage",
                   "fact_subscription_events">>
        ran == SelectSeq(phases, IsRuleName)
    IN  /\ Len(ran) <= Len(order)
        /\ ran = SubSeq(order, 1, Len(ran))
        /\ (pc = "failed" /\ IsRuleName(failed_in)) =>
              /\ ran # <<>>
              /\ ran[Len(ran)] = failed_in
        /\ pc = "done" =>
              /\ ran = order
              /\ \A s \in BagToSet(committed.subscriptions_raw) :
                 \A c \in BagToSet(committed.customers_raw) :
                    (c.subscription_id = s.subscription_id /\ DateResolves(s.start_date)) =>
                        \E o \in BagToSet(committed.fact_subscription_events) :
                            /\ FromSubscription(o, s, committed.dim_plan)
                            /\ StartsOn(o, s)
                            /\ o.customer_id = c.customer_id

\* C17 witness: a successful run over a warehouse that held plans already
\* wrote a fact row under the key of a plan that it created itself.
C17_Witness ==
    /\ pc = "done"
    /\ pre.dim_plan # {}
    /\ \E o \in BagToSet(committed.fact_subscription_events) :
          \A p \in pre.dim_plan : p.plan_key # o.plan_key

\* C18: whichever step fails, main records the failing step and returns:
\* no exception leaves main, and a failed invocation ends as a successful
\* one does.
C18_FailureIsLoggedNotRaised ==
    /\ outcome # "raised"
    /\ pc = "done" => outcome = "returned"
    /\ pc = "failed" =>
          /\ outcome = "returned"
          /\ failed_in \in {"extract", "bootstrap", "commit"} \cup LoadTransformSteps

\* C18 witness: main has returned from a run that failed in its load, after
\* a run that succeeded.
C18_Witness ==
    /\ pc = "failed"
    /\ failed_in = "load"
    /\ outcome = "returned"
    /\ last_input # NoData

CustomerKeys(dim) == {x.customer_id : x \in dim}

PlanKeys(dim) == {<<x.plan_name, x.period>> : x \in dim}

\* C19: no dimension row is deleted: the customer_ids of dim_customer and
\* the (plan_name, period) pairs of dim_plan that a run found are there
\* during and after the run, and a row the run found whose key is not in the
\* run's batch is there unchanged.
C19_DimensionsOnlyGrow ==
    /\ CustomerKeys(pre.dim_customer) \subseteq CustomerKeys(committed.dim_customer)
    /\ CustomerKeys(pre.dim_customer) \subseteq CustomerKeys(db.dim_customer)
    /\ PlanKeys(pre.dim_plan) \subseteq PlanKeys(committed.dim_plan)
    /\ PlanKeys(pre.dim_plan) \subseteq PlanKeys(db.dim_plan)
    /\ input # NoData =>
          /\ \A x \in pre.dim_customer :
                x.customer_id \notin CustomerKeys(BagToSet(input.customers)) =>
                    x \in committed.dim_customer /\ x \in db.dim_customer
          /\ \A x \in pre.dim_plan :
                <<x.plan_name, x.period>> \notin PlanKeys(BagToSet(input.subscriptions)) =>
                    x \in committed.dim_plan /\ x \in db.dim_plan

\* C19 witness: a successful run whose batch held a customer found another
\* customer and a plan that its batch lacks.
C19_Witness ==
    /\ pc = "done"
    /\ input.customers # EmptyBag
    /\ \E x \in pre.dim_customer :
          x.customer_id \notin CustomerKeys(BagToSet(input.customers))
    /\ \E x \in pre.dim_plan :
          <<x.plan_name, x.period>> \notin PlanKeys(BagToSet(input.subscriptions))

====
